---- MODULE Spec2Model ----
(***************************************************************************)
(* FundShortingAnalysis: the insider-history reconstruction of             *)
(* insiderTransactions.py, the peak extraction and company ranking of      *)
(* pricePeaks.py, and the batch loops of the two scripts.                  *)
(*                                                                         *)
(* Dates are proleptic Gregorian ordinals (datetime.date.toordinal); a     *)
(* date string is the triple of numbers strptime("%Y-%m-%d") reads.        *)
(* Amounts and prices are integers (the values float() yields exactly).    *)
(***************************************************************************)
EXTENDS Integers, Sequences, FiniteSets, TLC

VARIABLES
    pc,             \* which call has been made: "ready" or "done"
    transactions,   \* compute_insider_history: the raw records
    start_date,     \* compute_insider_history: window start (ordinal)
    end_date,       \* compute_insider_history: window end (ordinal)
    history,        \* compute_insider_history: what the call produced
    values,         \* extract_peaks_from_series: the price series
    num_peaks,      \* extract_peaks_from_series: k
    peaks_indices,  \* extract_peaks_from_series: find_peaks' result
    top_peaks,      \* extract_peaks_from_series: the returned list
    df,             \* get_top_companies: rows (ticker, stock_price)
    top_n,          \* get_top_companies: n
    top_companies,  \* get_top_companies: the returned keys
    script,         \* batch run: "insider" or "peaks"
    symbol_idx,     \* batch run: position in the symbols list
    oplog           \* batch run: every external call and step, in order

vars == <<pc, transactions, start_date, end_date, history, values, num_peaks,
          peaks_indices, top_peaks, df, top_n, top_companies, script,
          symbol_idx, oplog>>

histVars  == <<transactions, start_date, end_date, history>>
peakVars  == <<values, num_peaks, peaks_indices, top_peaks>>
rankVars  == <<df, top_n, top_companies>>
batchVars == <<script, symbol_idx, oplog>>

\* ------------------------------------------------------------------ bounds
MaxTxns == 2
MaxSpan == 2
MaxLen == 6
MaxPrice == 3
MaxK == 3
MaxRows == 3
MaxTop == 3
NumSymbols == 3

\* ------------------------------------------------------------- sequences
RECURSIVE SeqSum(_)
SeqSum(s) == IF s = <<>> THEN 0 ELSE s[1] + SeqSum(Tail(s))

Range(s) == {s[i] : i \in DOMAIN s}

Perms(n) == {p \in [1..n -> 1..n] : \A i, j \in 1..n : i # j => p[i] # p[j]}

SeqsUpTo(S, n) == UNION {[1..k -> S] : k \in 0..n}

\* ---------------------------------------------------------------- dates
\* datetime's calendar: strptime rejects a month outside 1..12 and a day
\* outside the month; date.toordinal counts days from 0001-01-01.
IsLeap(y) == (y % 4 = 0) /\ ((y % 100 # 0) \/ (y % 400 = 0))

DaysInMonth(y, m) ==
    CASE m \in {1, 3, 5, 7, 8, 10, 12} -> 31
      [] m \in {4, 6, 9, 11} -> 30
      [] OTHER -> IF IsLeap(y) THEN 29 ELSE 28

RECURSIVE DaysBeforeMonth(_, _)
DaysBeforeMonth(y, m) ==
    IF m = 1 THEN 0 ELSE DaysBeforeMonth(y, m - 1) + DaysInMonth(y, m - 1)

DaysBeforeYear(y) ==
    (y - 1) * 365 + ((y - 1) \div 4) - ((y - 1) \div 100) + ((y - 1) \div 400)

ToOrdinal(y, m, d) == DaysBeforeYear(y) + DaysBeforeMonth(y, m) + d

\* A field of a raw record: tag "text" (a string that may or may not parse),
\* "null" (JSON null, Python None) or "missing" (the key is absent).
DateText(y, m, d) == [tag |-> "text", y |-> y, m |-> m, d |-> d]
NoDate(tag)       == [tag |-> tag, y |-> 0, m |-> 0, d |-> 0]
Amount(n)         == [tag |-> "number", num |-> n]
NoAmount(tag)     == [tag |-> tag, num |-> 0]

Txn(date, type, value) ==
    [transactionDate |-> date, transactionType |-> type, transactionValue |-> value]

\* txn.get("transactionDate", "") then strptime(..., "%Y-%m-%d").date():
\* the default "" and None both raise inside the try and the record is
\* skipped.
ParseDate(field) ==
    IF /\ field.tag = "text"
       /\ field.y \in 1..9999
       /\ field.m \in 1..12
       /\ field.d \in 1..DaysInMonth(field.y, field.m)
    THEN [ok |-> TRUE, date |-> ToOrdinal(field.y, field.m, field.d)]
    ELSE [ok |-> FALSE, date |-> 0]

\* float(txn.get("transactionValue", 0)) inside try/except: 0.0 on failure,
\* 0 when the key is absent.
ParseValue(field) == IF field.tag = "number" THEN field.num ELSE 0

\* txn.get("transactionType", "").lower(), then the substring tests.
\* "<missing>" is an absent key (default ""), "<null>" a JSON null, on which
\* .lower() raises AttributeError outside every try block.
TypeRaises(type)   == type = "<null>"
ContainsBuy(type)  == type \in {"Buy", "P-Purchase (buy)", "Buy-Sell"}
ContainsSell(type) == type \in {"SELL", "S-Sale (sell)", "Buy-Sell"}

NetValue(type, value) ==
    IF ContainsBuy(type) THEN value
    ELSE IF ContainsSell(type) THEN 0 - value
    ELSE 0

\* The loop over the transactions: the records kept so far, or raised.
RECURSIVE BuildRecords(_, _, _)
BuildRecords(txns, s, e) ==
    IF txns = <<>> THEN [raised |-> FALSE, records |-> <<>>]
    ELSE LET txn  == Head(txns)
             pd   == ParseDate(txn.transactionDate)
             rest == BuildRecords(Tail(txns), s, e)
         IN  IF ~pd.ok THEN rest
             ELSE IF pd.date < s \/ pd.date > e THEN rest
             ELSE IF TypeRaises(txn.transactionType)
                  THEN [raised |-> TRUE, records |-> <<>>]
             ELSE IF rest.raised THEN rest
             ELSE [raised |-> FALSE,
                   records |-> <<[date |-> pd.date,
                                  net_value |-> NetValue(txn.transactionType,
                                                  ParseValue(txn.transactionValue))]>>
                               \o rest.records]

\* df.groupby('date')['net_value'].sum(): one entry per date that occurs.
RECURSIVE LastOn(_, _)
LastOn(records, d) ==
    IF records = <<>> THEN 0
    ELSE IF records[Len(records)].date = d THEN records[Len(records)].net_value
    ELSE LastOn(SubSeq(records, 1, Len(records) - 1), d)

\* Mutant of GroupByDateSum: groupby(...).last(), the day keeps one event.
GroupByDateLast(records) ==
    [d \in {records[i].date : i \in DOMAIN records} |-> LastOn(records, d)]

RECURSIVE SumOn(_, _)
SumOn(records, d) ==
    IF records = <<>> THEN 0
    ELSE (IF Head(records).date = d THEN Head(records).net_value ELSE 0)
         + SumOn(Tail(records), d)

GroupByDateSum(records) ==
    [d \in {records[i].date : i \in DOMAIN records} |-> SumOn(records, d)]

\* Mutant of DateRange: the end date left out (a half-open range).
DateRangeHalfOpen(s, e) == [i \in 1..(IF e > s THEN e - s ELSE 0) |-> s + i - 1]

\* pd.date_range(start=start_date, end=end_date): every day, both ends in.
DateRange(s, e) == [i \in 1..(IF e >= s THEN e - s + 1 ELSE 0) |-> s + i - 1]

\* daily.set_index('date').reindex(all_dates, fill_value=0)
Reindex(daily, all_dates) ==
    [i \in DOMAIN all_dates |->
        [date |-> all_dates[i],
         net_value |-> IF all_dates[i] \in DOMAIN daily
                       THEN daily[all_dates[i]] ELSE 0]]

\* Mutant of CumSum: the day's own value, the running total forgotten.
NoCumSum(rows, i) == IF i = 0 THEN 0 ELSE rows[i].net_value

\* daily['net_value'].cumsum()
RECURSIVE CumSum(_, _)
CumSum(rows, i) == IF i = 0 THEN 0 ELSE CumSum(rows, i - 1) + rows[i].net_value

Empty       == [kind |-> "Empty", rows |-> <<>>]
Raised      == [kind |-> "Raised", rows |-> <<>>]
NotCalled   == [kind |-> "NotCalled", rows |-> <<>>]
Series(rows) == [kind |-> "Series", rows |-> rows]

\* "if not records" (and, for the caller, history_df.empty).
ResultKind(built) ==
    IF built.raised THEN "Raised"
    ELSE IF built.records = <<>> THEN "Empty"
    ELSE "Series"

\* Mutant of compute_insider_history: an all-zero window reported as Empty.
EmptyWhenAllZero(txns, s, e) ==
    LET built == BuildRecords(txns, s, e)
    IN  IF built.raised THEN Raised
        ELSE IF \A i \in DOMAIN built.records : built.records[i].net_value = 0
             THEN Empty
        ELSE LET daily == Reindex(GroupByDateSum(built.records), DateRange(s, e))
             IN  Series([i \in DOMAIN daily |->
                           [date |-> daily[i].date,
                            net_insider |-> CumSum(daily, i)]])

compute_insider_history(txns, s, e) ==
    LET built == BuildRecords(txns, s, e)
    IN  CASE ResultKind(built) = "Raised" -> Raised
          [] ResultKind(built) = "Empty" -> Empty
          [] OTHER ->
             LET daily == Reindex(GroupByDateSum(built.records), DateRange(s, e))
             IN  Series([i \in DOMAIN daily |->
                           [date |-> daily[i].date,
                            net_insider |-> CumSum(daily, i)]])

\* ---------------------------------------------------- inputs of the calls
WindowStart == ToOrdinal(2024, 2, 28)

WellFormedTxns ==
    {Txn(DateText(2024, md[1], md[2]), ty, Amount(a)) :
        md \in {<<2, 27>>, <<2, 28>>, <<2, 29>>, <<3, 1>>},
        ty \in {"Buy", "SELL"},
        a \in {1, 2}}

OddTxns ==
    { Txn(DateText(2024, 2, 28), "Gift", Amount(1)),
      Txn(DateText(2024, 2, 29), "Buy-Sell", Amount(2)),
      Txn(DateText(2024, 2, 28), "<missing>", Amount(1)),
      Txn(DateText(2024, 2, 28), "<null>", Amount(1)),
      Txn(DateText(2024, 2, 28), "P-Purchase (buy)", NoAmount("text")),
      Txn(DateText(2024, 2, 29), "S-Sale (sell)", NoAmount("missing")),
      Txn(DateText(2024, 2, 28), "Buy", Amount(0)),
      Txn(DateText(2024, 2, 30), "Buy", Amount(1)),
      Txn(DateText(2023, 2, 29), "SELL", Amount(2)),
      Txn(NoDate("missing"), "SELL", Amount(2)),
      Txn(NoDate("null"), "Buy", Amount(1)) }

RawTxns == WellFormedTxns \cup OddTxns

ScenarioTxns ==
    << Txn(DateText(2024, 1, 2), "Buy", Amount(100)),
       Txn(DateText(2024, 1, 2), "SELL", Amount(30)),
       Txn(DateText(2024, 1, 5), "Buy", Amount(50)) >>

IdlePeaks == /\ values = <<>> /\ num_peaks = 1
             /\ peaks_indices = <<>> /\ top_peaks = <<>>
IdleRank  == /\ df = <<>> /\ top_n = 1 /\ top_companies = <<>>
IdleBatch == /\ script = "none" /\ symbol_idx = 0 /\ oplog = <<>>
IdleHist  == /\ transactions = <<>> /\ start_date = 0 /\ end_date = 0
             /\ history = NotCalled

InitHist ==
    /\ pc = "ready"
    /\ history = NotCalled
    /\ \/ /\ transactions \in SeqsUpTo(RawTxns, MaxTxns)
          /\ start_date = WindowStart
          /\ end_date \in WindowStart..(WindowStart + MaxSpan)
       \/ /\ transactions = ScenarioTxns
          /\ start_date = ToOrdinal(2024, 1, 1)
          /\ end_date = ToOrdinal(2024, 1, 6)
    /\ IdlePeaks /\ IdleRank /\ IdleBatch

ComputeInsiderHistory ==
    /\ pc = "ready"
    /\ history' = compute_insider_history(transactions, start_date, end_date)
    /\ pc' = "done"
    /\ UNCHANGED <<transactions, start_date, end_date, peakVars, rankVars, batchVars>>

NextHist == ComputeInsiderHistory

SpecHist == InitHist /\ [][NextHist]_vars

\* ================================================ extract_peaks_from_series
\* numpy indexes from 0: At(x, i) is x[i].
At(x, i) == x[i + 1]

\* Mutant of find_peaks: only samples strictly above both neighbours.
StrictMaximaOnly(x) ==
    LET RECURSIVE Scan(_)
        Scan(i) ==
            IF i >= Len(x) - 1 THEN <<>>
            ELSE (IF At(x, i - 1) < At(x, i) /\ At(x, i + 1) < At(x, i)
                  THEN <<i>> ELSE <<>>) \o Scan(i + 1)
    IN  Scan(1)

\* scipy.signal.find_peaks(values) with no condition: the scan of
\* _local_maxima_1d. From a sample above its predecessor it looks ahead over
\* the samples equal to it; if the next different sample is lower it records
\* the middle of the flat run (rounded down) and resumes after the run.
RECURSIVE PlateauEnd(_, _, _)
PlateauEnd(x, i, i_ahead) ==
    IF i_ahead < Len(x) - 1 /\ At(x, i_ahead) = At(x, i)
    THEN PlateauEnd(x, i, i_ahead + 1)
    ELSE i_ahead

RECURSIVE LocalMaxima(_, _)
LocalMaxima(x, i) ==
    IF i >= Len(x) - 1 THEN <<>>
    ELSE IF At(x, i - 1) < At(x, i)
         THEN LET i_ahead == PlateauEnd(x, i, i + 1)
              IN  IF At(x, i_ahead) < At(x, i)
                  THEN <<(i + (i_ahead - 1)) \div 2>> \o LocalMaxima(x, i_ahead + 1)
                  ELSE LocalMaxima(x, i + 1)
         ELSE LocalMaxima(x, i + 1)

find_peaks(x) == LocalMaxima(x, 1)

\* np.argsort(peak_values): the default kind is quicksort, which numpy does
\* not promise to be stable, so any order that sorts the values ascending
\* may come back (positions into peak_values, from 1 here).
ArgSorts(peak_values) ==
    {p \in Perms(Len(peak_values)) :
        \A a, b \in 1..Len(peak_values) :
            a < b => peak_values[p[a]] <= peak_values[p[b]]}

Reversed(s) == [i \in DOMAIN s |-> s[Len(s) + 1 - i]]

\* Mutant of SortedPeakIndices: the [::-1] forgotten, ascending order.
AscendingPeakIndices(peaks, order) == [i \in DOMAIN order |-> peaks[order[i]]]

\* peaks_indices[np.argsort(peak_values)[::-1]]
SortedPeakIndices(peaks, order) ==
    LET rev == Reversed(order)
    IN  [i \in DOMAIN rev |-> peaks[rev[i]]]

\* Mutant of TopSlice: one element too many.
SliceOneMore(s, k) == SubSeq(s, 1, IF k + 1 < Len(s) THEN k + 1 ELSE Len(s))

\* sorted_peak_indices[:num_peaks], num_peaks positive
TopSlice(s, k) == SubSeq(s, 1, IF k < Len(s) THEN k ELSE Len(s))

\* [(dates[i], values[i]) for i in top_peak_indices]: dates[i] is the date at
\* position i, kept here as the position itself.
PeakList(x, idxs) == [j \in DOMAIN idxs |-> [index |-> idxs[j], value |-> At(x, idxs[j])]]

ScenarioSeries == <<1, 3, 2, 5, 4, 5, 1>>

InitPeaks ==
    /\ pc = "ready"
    /\ \/ /\ values \in SeqsUpTo(1..MaxPrice, MaxLen)
          /\ num_peaks \in 1..MaxK
       \/ /\ values = ScenarioSeries
          /\ num_peaks = 2
    /\ peaks_indices = <<>>
    /\ top_peaks = <<>>
    /\ IdleHist /\ IdleRank /\ IdleBatch

ExtractPeaksFromSeries ==
    /\ pc = "ready"
    /\ LET found == find_peaks(values)
       IN  /\ peaks_indices' = found
           /\ IF Len(found) = 0
              THEN top_peaks' = <<>>
              ELSE \E order \in ArgSorts([j \in DOMAIN found |-> At(values, found[j])]) :
                      top_peaks' = PeakList(values,
                          TopSlice(SortedPeakIndices(found, order), num_peaks))
    /\ pc' = "done"
    /\ UNCHANGED <<values, num_peaks, histVars, rankVars, batchVars>>

NextPeaks == ExtractPeaksFromSeries

SpecPeaks == InitPeaks /\ [][NextPeaks]_vars

\* ======================================================== get_top_companies
Row(ticker, price) == [ticker |-> ticker, stock_price |-> price]

Tickers == {"C", "B", "A"}

\* Python's order on the ticker strings.
TickerRank(t) == CASE t = "A" -> 1 [] t = "B" -> 2 [] OTHER -> 3

\* df.groupby('ticker'): the group keys, sorted (sort=True is the default).
GroupKeys(rows) ==
    LET keys == {rows[i].ticker : i \in DOMAIN rows}
    IN  CHOOSE ks \in [1..Cardinality(keys) -> keys] :
            \A a, b \in 1..Cardinality(keys) :
                a < b => TickerRank(ks[a]) < TickerRank(ks[b])

RECURSIVE PriceSum(_, _)
PriceSum(rows, t) ==
    IF rows = <<>> THEN 0
    ELSE (IF Head(rows).ticker = t THEN Head(rows).stock_price ELSE 0)
         + PriceSum(Tail(rows), t)

RECURSIVE PriceCount(_, _)
PriceCount(rows, t) ==
    IF rows = <<>> THEN 0
    ELSE (IF Head(rows).ticker = t THEN 1 ELSE 0) + PriceCount(Tail(rows), t)

Abs(n) == IF n < 0 THEN 0 - n ELSE n

\* Mutant of AbsMean: .abs() left out, the signed mean.
SignedMean(rows, t) == [num |-> PriceSum(rows, t), den |-> PriceCount(rows, t)]

\* ['stock_price'].mean().abs() of one group, as the fraction num/den.
AbsMean(rows, t) == [num |-> Abs(PriceSum(rows, t)), den |-> PriceCount(rows, t)]

\* q1 <= q2 for fractions with positive denominators.
FracLE(q1, q2) == q1.num * q2.den <= q2.num * q1.den

\* avg_price.sort_values(ascending=False): the default kind is quicksort,
\* not a stable sort, so any order of the keys with non-increasing metric
\* may come back.
SortValuesDescending(rows, keys) ==
    {[i \in DOMAIN keys |-> keys[p[i]]] : p \in
        {q \in Perms(Len(keys)) :
            \A a, b \in 1..Len(keys) :
                a < b => FracLE(AbsMean(rows, keys[q[b]]), AbsMean(rows, keys[q[a]]))}}

\* .head(top_n).index.tolist()
head(s, n) == SubSeq(s, 1, IF n < Len(s) THEN n ELSE Len(s))

ScenarioDf == <<Row("A", 10), Row("B", -20), Row("C", 5)>>

InitRank ==
    /\ pc = "ready"
    /\ \/ /\ df \in SeqsUpTo({Row(t, v) : t \in Tickers, v \in {-2, 1, 2}}, MaxRows)
          /\ top_n \in 1..MaxTop
       \/ /\ df = ScenarioDf
          /\ top_n = 2
    /\ top_companies = <<>>
    /\ IdleHist /\ IdlePeaks /\ IdleBatch

GetTopCompanies ==
    /\ pc = "ready"
    /\ \E sorted \in SortValuesDescending(df, GroupKeys(df)) :
          top_companies' = head(sorted, top_n)
    /\ pc' = "done"
    /\ UNCHANGED <<df, top_n, histVars, peakVars, batchVars>>

NextRank == GetTopCompanies

SpecRank == InitRank /\ [][NextRank]_vars

\* ============================================================ the batch runs
\* SYMBOLS, split on commas: the instruments in input order.
Symbols == [i \in 1..NumSymbols |-> i]

Op(symbol, op, result) == [symbol |-> symbol, op |-> op, result |-> result]

\* What fetch_insider_transactions hands back: None when check_api_limit
\* sees Note / Error Message / Information, [] when the request raised,
\* otherwise the payload's "data" list.
TxnFetchResults == {"rate_limit", "failed", "events", "old_events"}

FetchedTxns(result) ==
    CASE result = "events" ->
            <<Txn(DateText(2024, 2, 28), "Buy", Amount(1))>>
      [] result = "old_events" ->
            <<Txn(DateText(2023, 2, 20), "SELL", Amount(2))>>
      [] OTHER -> <<>>

\* fetch_overview: None on a rate-limit payload, {} when the request raised.
OverviewFetchResults == {"rate_limit", "failed", "overview"}

\* end_date = today, start_date = end_date - timedelta(days=365)
PastYearDays == 365
RunEnd   == ToOrdinal(2024, 3, 1)
RunStart == RunEnd - PastYearDays

\* One pass of the for loop of insiderTransactions.main.
InsiderIteration ==
    /\ script = "insider"
    /\ pc = "loop"
    /\ symbol_idx <= NumSymbols
    /\ \E t \in TxnFetchResults, o \in OverviewFetchResults :
          LET sym  == Symbols[symbol_idx]
              f1   == <<Op(sym, "fetch_transactions", t)>>
              f2   == <<Op(sym, "fetch_overview", o)>>
              \* history_df = compute_insider_history(...); history_df.empty
              kind == ResultKind(BuildRecords(FetchedTxns(t), RunStart, RunEnd))
          IN  IF t = "rate_limit"
              THEN /\ oplog' = oplog \o f1
                   /\ pc' = "done"
                   /\ symbol_idx' = symbol_idx
              ELSE IF o = "rate_limit"
              THEN /\ oplog' = oplog \o f1 \o f2
                   /\ pc' = "done"
                   /\ symbol_idx' = symbol_idx
              ELSE /\ oplog' = oplog \o f1 \o f2 \o
                        (IF kind = "Series"
                         THEN <<Op(sym, "compute_history", "series"),
                                Op(sym, "plot", "saved")>>
                         ELSE <<Op(sym, "compute_history", "empty")>>)
                   /\ symbol_idx' = symbol_idx + 1
                   /\ pc' = IF symbol_idx = NumSymbols THEN "done" ELSE "loop"
    /\ UNCHANGED <<script, histVars, peakVars, rankVars>>

\* What the provider answers to TIME_SERIES_DAILY. fetch_data_for_symbol
\* returns an empty DataFrame both for a payload without
\* "Time Series (Daily)" (a rate-limit Note among them) and for a request
\* that raised.
PriceFetchResults == {"rate_limit", "failed", "prices_low", "prices_high"}

FetchedPrices(result) ==
    CASE result = "prices_low"  -> <<1, 2, 1>>
      [] result = "prices_high" -> <<3, 3, 4>>
      [] OTHER -> <<>>

\* One pass of the first for loop of pricePeaks.main.
PeaksFetchIteration ==
    /\ script = "peaks"
    /\ pc = "loop"
    /\ symbol_idx <= NumSymbols
    /\ \E r \in PriceFetchResults :
          oplog' = Append(oplog, Op(Symbols[symbol_idx], "fetch_prices", r))
    /\ symbol_idx' = symbol_idx + 1
    /\ pc' = IF symbol_idx = NumSymbols THEN "fetched" ELSE "loop"
    /\ UNCHANGED <<script, histVars, peakVars, rankVars>>

TopN        == 5
PeaksWanted == 3

\* all_data, concatenated: the rows of every symbol whose fetch gave prices.
RECURSIVE DataRows(_)
DataRows(log) ==
    IF log = <<>> THEN <<>>
    ELSE LET prices == FetchedPrices(Head(log).result)
         IN  [i \in DOMAIN prices |-> [ticker |-> Head(log).symbol,
                                        stock_price |-> prices[i]]]
             \o DataRows(Tail(log))

\* The keys of the groupby, sorted: the symbols are numbers here.
SymbolKeys(rows) ==
    LET keys == {rows[i].ticker : i \in DOMAIN rows}
    IN  CHOOSE ks \in [1..Cardinality(keys) -> keys] :
            \A a, b \in 1..Cardinality(keys) : a < b => ks[a] < ks[b]

\* The rest of pricePeaks.main once the fetch loop is over.
PeaksAnalyse ==
    /\ script = "peaks"
    /\ pc = "fetched"
    /\ LET data_df == DataRows(oplog)
       IN  IF data_df = <<>>
           THEN oplog' = oplog
           ELSE \E sorted \in SortValuesDescending(data_df, SymbolKeys(data_df)) :
                   LET top == head(sorted, TopN)
                   IN  oplog' = oplog \o
                          [c \in DOMAIN top |->
                              Op(top[c], "extract_peaks",
                                 IF Len(find_peaks(
                                        FetchedPrices(
                                            (CHOOSE e \in Range(oplog) :
                                                e.symbol = top[c]).result))) = 0
                                 THEN "no_peaks" ELSE "peaks")]
    /\ pc' = "done"
    /\ UNCHANGED <<script, symbol_idx, histVars, peakVars, rankVars>>

InitBatch ==
    /\ pc = "loop"
    /\ script \in {"insider", "peaks"}
    /\ symbol_idx = 1
    /\ oplog = <<>>
    /\ IdleHist /\ IdlePeaks /\ IdleRank

NextBatch == InsiderIteration \/ PeaksFetchIteration \/ PeaksAnalyse

SpecBatch == InitBatch /\ [][NextBatch]_vars

\* =================================================================== claims
\* ------------------------------------------------ compute_insider_history
\* What the claims call an event's kind and its signed contribution.
HasDate(txn)   == ParseDate(txn.transactionDate).ok
DateOf(txn)    == ParseDate(txn.transactionDate).date
InWindow(txn, s, e) == HasDate(txn) /\ DateOf(txn) >= s /\ DateOf(txn) <= e
Kind(txn) ==
    CASE txn.transactionType \in {"Buy", "P-Purchase (buy)", "Buy-Sell"} -> "Buy"
      [] txn.transactionType \in {"SELL", "S-Sale (sell)"} -> "Sell"
      [] OTHER -> "Other"
Contribution(txn) ==
    LET a == IF txn.transactionValue.tag = "number"
             THEN txn.transactionValue.num ELSE 0
    IN  CASE Kind(txn) = "Buy" -> a
          [] Kind(txn) = "Sell" -> 0 - a
          [] OTHER -> 0

RECURSIVE SumBetween(_, _, _)
SumBetween(txns, lo, hi) ==
    IF txns = <<>> THEN 0
    ELSE (IF InWindow(Head(txns), lo, hi) THEN Contribution(Head(txns)) ELSE 0)
         + SumBetween(Tail(txns), lo, hi)

NetValues(h) == [i \in DOMAIN h.rows |-> h.rows[i].net_insider]

ScenarioCall ==
    /\ transactions = ScenarioTxns
    /\ start_date = ToOrdinal(2024, 1, 1)
    /\ end_date = ToOrdinal(2024, 1, 6)

\* C1: in a non-empty result the value reported for a date d of the window is
\* the sum, over the events with a parseable date in [start, d], of +amount
\* (Buy), -amount (Sell), 0 (Other); the last value is the sum of all DailyNet
\* values (the per-day sums over the window); the scenario gives
\* [0, 70, 70, 70, 120, 120].
C1_CumulativeIsWindowSum ==
    (pc = "done" /\ history.kind = "Series") =>
        /\ \A i \in DOMAIN history.rows :
              history.rows[i].net_insider =
                  SumBetween(transactions, start_date, history.rows[i].date)
        /\ history.rows[Len(history.rows)].net_insider =
              SeqSum([k \in 1..(end_date - start_date + 1) |->
                        SumBetween(transactions, start_date + k - 1,
                                   start_date + k - 1)])
        /\ ScenarioCall => NetValues(history) = <<0, 70, 70, 70, 120, 120>>

C1_Witness ==
    /\ pc = "done"
    /\ ScenarioCall
    /\ history.kind = "Series"
    /\ NetValues(history) = <<0, 70, 70, 70, 120, 120>>

\* C2: a non-empty result has (end - start) + 1 rows, row i carrying the date
\* start + i: every date of the window once, ascending, none outside.
C2_OneRowPerWindowDate ==
    (pc = "done" /\ history.kind = "Series") =>
        /\ start_date <= end_date
        /\ Len(history.rows) = (end_date - start_date) + 1
        /\ \A i \in DOMAIN history.rows :
              history.rows[i].date = start_date + (i - 1)

C2_Witness ==
    /\ pc = "done"
    /\ history.kind = "Series"
    /\ Len(history.rows) = 3
    /\ \E i \in DOMAIN history.rows :
          \A j \in DOMAIN transactions :
              ~(HasDate(transactions[j])
                /\ DateOf(transactions[j]) = history.rows[i].date)

\* C3: the result is Empty exactly when no event has a parseable date inside
\* the window; in-window events that are Other, zero, or cancel out give a
\* series (of zeros), not Empty.
C3_EmptyIffNoEventInWindow ==
    pc = "done" =>
        (history = Empty <=>
            ~\E i \in DOMAIN transactions :
                InWindow(transactions[i], start_date, end_date))

C3_Witness ==
    /\ pc = "done"
    /\ history.kind = "Series"
    /\ \A i \in DOMAIN history.rows : history.rows[i].net_insider = 0
    /\ \E i, j \in DOMAIN transactions :
          /\ InWindow(transactions[i], start_date, end_date)
          /\ InWindow(transactions[j], start_date, end_date)
          /\ Contribution(transactions[i]) > 0
          /\ Contribution(transactions[j]) < 0

\* The list with the bad-date records removed and every unparseable amount
\* replaced by 0.
Sanitized(txns) ==
    LET kept == SelectSeq(txns, HasDate)
    IN  [i \in DOMAIN kept |->
            [kept[i] EXCEPT !.transactionValue =
                IF @.tag = "number" THEN @ ELSE Amount(0)]]

\* C8: whatever the records hold (bad or missing dates, amounts, types), the
\* call returns normally, and its result is that of the list with the
\* bad-date records removed and every unparseable amount replaced by 0.

C8_ReturnsNormallyAsSanitized ==
    pc = "done" =>
        /\ history.kind # "Raised"
        /\ history = compute_insider_history(Sanitized(transactions),
                                             start_date, end_date)

Permuted(txns, p) == [i \in DOMAIN txns |-> txns[p[i]]]

Mergeable(txns, i, j) ==
    /\ i < j
    /\ HasDate(txns[i]) /\ HasDate(txns[j])
    /\ DateOf(txns[i]) = DateOf(txns[j])
    /\ ~TypeRaises(txns[i].transactionType)
    /\ ~TypeRaises(txns[j].transactionType)
    /\ Kind(txns[i]) = Kind(txns[j])

Merged(txns, i, j) ==
    LET one == [txns[i] EXCEPT !.transactionValue =
                   Amount(ParseValue(txns[i].transactionValue)
                          + ParseValue(txns[j].transactionValue))]
    IN  [k \in 1..(Len(txns) - 1) |->
            IF k = i THEN one ELSE IF k < j THEN txns[k] ELSE txns[k + 1]]

\* C9: every permutation of the events gives the same result, and so does
\* replacing same-date events of one kind by one event with the summed amount.
C9_OrderAndDecompositionInvariant ==
    pc = "done" =>
        /\ \A p \in Perms(Len(transactions)) :
              compute_insider_history(Permuted(transactions, p),
                                      start_date, end_date) = history
        /\ \A i, j \in DOMAIN transactions :
              Mergeable(transactions, i, j) =>
                  compute_insider_history(Merged(transactions, i, j),
                                          start_date, end_date) = history

C9_Witness ==
    /\ pc = "done"
    /\ history.kind = "Series"
    /\ Len(transactions) = 2
    /\ transactions[1] # transactions[2]
    /\ Mergeable(transactions, 1, 2)
    /\ Contribution(transactions[1]) # 0
    /\ Contribution(transactions[2]) # 0

\* ---------------------------------------------- extract_peaks_from_series
StrictInterior(x) ==
    {i \in 1..(Len(x) - 2) : At(x, i) > At(x, i - 1) /\ At(x, i) > At(x, i + 1)}

\* The positions l..r (interior) hold one value, and the samples just before
\* and just after are both lower.
RaisedRun(x, l, r) ==
    /\ 1 <= l /\ l <= r /\ r <= Len(x) - 2
    /\ \A j \in l..r : At(x, j) = At(x, l)
    /\ At(x, l - 1) < At(x, l)
    /\ At(x, r + 1) < At(x, l)

PlateauMidpoints(x) ==
    {i \in 1..(Len(x) - 2) :
        \E l \in 1..i, r \in i..(Len(x) - 2) :
            RaisedRun(x, l, r) /\ i = (l + r) \div 2}

C6_AtMostKAllWhenFewer ==
    pc = "done" =>
        /\ Len(top_peaks) <= num_peaks
        /\ \A a, b \in DOMAIN top_peaks :
              a # b => top_peaks[a].index # top_peaks[b].index
        /\ {top_peaks[j].index : j \in DOMAIN top_peaks} \subseteq Range(peaks_indices)
        /\ num_peaks >= Len(peaks_indices) =>
              /\ Len(top_peaks) = Len(peaks_indices)
              /\ {top_peaks[j].index : j \in DOMAIN top_peaks} = Range(peaks_indices)
        /\ num_peaks < Len(peaks_indices) => Len(top_peaks) = num_peaks
        /\ Len(peaks_indices) = 0 => top_peaks = <<>>

C6_Witness ==
    /\ pc = "done"
    /\ Len(peaks_indices) = 2
    /\ num_peaks = 3
    /\ Len(top_peaks) = 2

\* ------------------------------------------------------ get_top_companies
KeySet(rows) == {rows[i].ticker : i \in DOMAIN rows}

FirstSeen(rows, t) == CHOOSE i \in DOMAIN rows :
    rows[i].ticker = t /\ \A j \in 1..(i - 1) : rows[j].ticker # t

\* |mean| of a key, from the rows themselves.
Metric(rows, t) ==
    LET mine == SelectSeq(rows, LAMBDA r : r.ticker = t)
        total == SeqSum([i \in DOMAIN mine |-> mine[i].stock_price])
    IN  [num |-> IF total < 0 THEN 0 - total ELSE total, den |-> Len(mine)]

MetricGreater(rows, t, u) ==
    Metric(rows, t).num * Metric(rows, u).den > Metric(rows, u).num * Metric(rows, t).den

MetricEqual(rows, t, u) ==
    Metric(rows, t).num * Metric(rows, u).den = Metric(rows, u).num * Metric(rows, t).den

\* The keys by |mean| descending, equal metrics in order of first encounter.
RankingTiesFirstSeen(rows) ==
    CHOOSE ks \in [1..Cardinality(KeySet(rows)) -> KeySet(rows)] :
        \A a, b \in 1..Cardinality(KeySet(rows)) :
            a < b =>
                \/ MetricGreater(rows, ks[a], ks[b])
                \/ /\ MetricEqual(rows, ks[a], ks[b])
                   /\ FirstSeen(rows, ks[a]) < FirstSeen(rows, ks[b])

MinOf(a, b) == IF a < b THEN a ELSE b

FetchOps == {"fetch_transactions", "fetch_overview", "fetch_prices"}

\* C10: the instruments are handled one at a time in input order, and once a
\* fetch has returned a rate-limit response nothing more is done in the run,
\* for that instrument or a later one; a failed fetch or an empty result
\* skips only the instrument it concerns.

C10_RateLimitStopsTheRun ==
    /\ \A a, b \in DOMAIN oplog :
          (a < b /\ oplog[a].op \in FetchOps /\ oplog[b].op \in FetchOps)
              => oplog[a].symbol <= oplog[b].symbol
    /\ \A a \in DOMAIN oplog :
          oplog[a].result = "rate_limit" => a = Len(oplog)
    /\ (pc = "done" /\ \A a \in DOMAIN oplog : oplog[a].result # "rate_limit")
          => \A i \in 1..NumSymbols :
                \E a \in DOMAIN oplog :
                    oplog[a].symbol = Symbols[i] /\ oplog[a].op \in FetchOps

====
